---------------------------- MODULE Spec2Model ----------------------------
(***************************************************************************)
(* A model of go-bimultimap: BiMultiMap[K, V], a bidirectional multimap    *)
(* made of two Go maps of slices (forward: K -> []V, inverse: V -> []K)    *)
(* guarded by one sync.RWMutex.                                            *)
(*                                                                         *)
(* Go slices are modelled as Go has them: a slice is a (pointer, length)   *)
(* header over a backing array that lives in a heap, and its capacity is   *)
(* the length of that array.  append writes in place while there is spare  *)
(* capacity and moves to a fresh, doubled array otherwise;                 *)
(* slices.DeleteFunc filters the backing array in place and zeroes the     *)
(* vacated tail.  Arrays no slice refers to are collected.                 *)
(***************************************************************************)
EXTENDS Integers, Sequences, FiniteSets, TLC

\* ------------------------------------------------------------------ bounds
\* Keys are 1..NumKeys.  Values are 1 and 2: the two indices mirror each other,
\* so the model is widened on the key side.
NumKeys == 2

\* A driver that merges makes at most MaxCalls calls.
MaxCalls == 5

\* The goroutines that call a shared structure.
NumThreads == 2

\* Goroutines of the two-way merge: two merges and a writer for each input.
NumContenders == 4

\* The calls those goroutines make between them.
MaxContended == 4

Keys == 1..NumKeys
Values == 1..(1 + 1)

NumValues == Cardinality(Values)

\* The zero value of K and of V (what clear() leaves in a vacated slot).
Zero == Cardinality({})

\* The structures of a run: two inputs and the structure a Merge returns.
MapSeq == <<"a", "b", "res">>

\* The places a slice can be held in: every entry of every index, then the
\* slice a caller keeps (snap) and the slice the last call returned (ret).
NumRoots == Cardinality({"snap", "ret"})
NumSlots == Len(MapSeq) * (NumKeys + NumValues) + NumRoots

\* Backing arrays: one per place, and room for those a call allocates on its way.
ArrIds == 1 .. (NumSlots + 3 * (NumKeys + NumValues))

VARIABLES
    heap,       \* backing arrays: ArrIds -> sequence of elements (<<>>: free)
    forward,    \* forward[m][k]: the map entry of key k (found, ptr, len)
    inverse,    \* inverse[m][v]: the map entry of value v
    snap,       \* a slice the caller got from a lookup and still holds
    ret,        \* what the last call returned to its caller
    failure,    \* "none", or the runtime failure that ended the program
    calls,      \* the calls made so far by a driver that makes at most MaxCalls
    pc,         \* pc[t]: where goroutine t is in the call it is making
    local,      \* local[t]: the arguments and the local variables of that call
    mutex       \* mutex[m]: the sync.RWMutex of structure m

vars == <<heap, forward, inverse, snap, ret, failure, calls, pc, local, mutex>>

\* ------------------------------------------------------------ Go slices
NilSlice == [ptr |-> 0, len |-> 0]

\* A map entry: found = FALSE is a key the map does not hold; reading it
\* yields the nil slice, as m.forward[key] does.
Absent == [found |-> FALSE, ptr |-> 0, len |-> 0]

Entry(sl) == [found |-> TRUE, ptr |-> sl.ptr, len |-> sl.len]

SliceOf(e) == [ptr |-> e.ptr, len |-> e.len]

Cap(h, sl) == IF sl.ptr = 0 THEN 0 ELSE Len(h[sl.ptr])

\* The elements s[0:len(s)] a holder of the slice sees.
View(h, sl) == IF sl.ptr = 0 THEN <<>> ELSE SubSeq(h[sl.ptr], 1, sl.len)

Range(f) == {f[i] : i \in DOMAIN f}

Elems(h, sl) == Range(View(h, sl))

\* The sequence f[1], ..., f[n], written out (a tuple, which EXCEPT updates
\* in place, where [i \in 1..n |-> e] is a rule evaluated on demand).
RECURSIVE Tuple(_, _)
Tuple(f, n) == IF n = 0 THEN <<>> ELSE Append(Tuple(f, n - 1), f[n])

Zeros(n) == Tuple([i \in 1..n |-> Zero], n)

\* The allocator: the first free array.
RECURSIVE FirstFree(_, _)
FirstFree(h, id) == IF h[id] = <<>> THEN id ELSE FirstFree(h, id + 1)

Alloc(h) == FirstFree(h, 1)

\* make([]T, 0, cap): a zero-capacity slice owns no array.
make(h, cap) ==
    IF cap = 0 THEN [heap |-> h, slice |-> NilSlice]
    ELSE LET id == Alloc(h)
         IN [heap |-> [h EXCEPT ![id] = Zeros(cap)], slice |-> [ptr |-> id, len |-> 0]]

\* append(s, x): in place when len(s) < cap(s), else into a new array of twice
\* the capacity (growslice for small slices), leaving the old array as it was.
append(h, sl, x) ==
    IF sl.len < Cap(h, sl)
    THEN [heap |-> [h EXCEPT ![sl.ptr][sl.len + 1] = x],
          slice |-> [sl EXCEPT !.len = sl.len + 1]]
    ELSE LET id == Alloc(h)
             newcap == IF Cap(h, sl) = 0 THEN 1 ELSE 2 * Cap(h, sl)
         IN [heap |-> [h EXCEPT ![id] = View(h, sl) \o <<x>> \o Zeros(newcap - sl.len - 1)],
             slice |-> [ptr |-> id, len |-> sl.len + 1]]

\* A Contains that never finds anything.
ContainsNothing(h, sl, x) == FALSE

\* slices.Contains
Contains(h, sl, x) == x \in Elems(h, sl)

Keep(seq, item) == SelectSeq(seq, LAMBDA it : it # item)

\* deleteItem: slices.DeleteFunc(slice, it == item).  The kept elements are
\* moved to the front of the SAME backing array, the vacated tail s[i:len] is
\* cleared, and s[:i] is returned; the capacity stays.
deleteItem(h, sl, item) ==
    LET kept == Keep(View(h, sl), item)
    IN IF sl.ptr = 0 \/ Len(kept) = sl.len THEN [heap |-> h, slice |-> sl]
       ELSE [heap |-> [h EXCEPT ![sl.ptr] =
                          kept \o Zeros(sl.len - Len(kept))
                               \o SubSeq(h[sl.ptr], sl.len + 1, Len(h[sl.ptr]))],
             slice |-> [sl EXCEPT !.len = Len(kept)]]

\* ------------------------------------------------- the structure's store
\* A store is the memory the calls work on: [heap, forward, inverse].
Store == [heap |-> heap, forward |-> forward, inverse |-> inverse]

EmptyIndex(n) == Tuple([x \in 1..n |-> Absent], n)

\* New: two empty maps.
New(s, m) ==
    [s EXCEPT !.forward[m] = EmptyIndex(NumKeys), !.inverse[m] = EmptyIndex(NumValues)]

\* The slice held in each place, in the fixed order of the places.
SlotPtrs(s, roots) ==
    [i \in 1..NumSlots |->
        LET per == NumKeys + NumValues
            mi == ((i - 1) \div per) + 1
            j == ((i - 1) % per) + 1
        IN IF mi > Len(MapSeq) THEN roots[i - Len(MapSeq) * per].ptr
           ELSE IF j <= NumKeys THEN s.forward[MapSeq[mi]][j].ptr
           ELSE s.inverse[MapSeq[mi]][j - NumKeys].ptr]

\* The garbage collector.  An array nothing refers to is freed; the others are
\* renamed after the first place that holds them.  A program cannot observe
\* the address of an array, only which slices share it, and that is kept.
RECURSIVE FirstAt(_, _, _)
FirstAt(ptrs, p, i) == IF ptrs[i] = p THEN i ELSE FirstAt(ptrs, p, i + 1)

NewId(ptrs, p) == IF p = 0 THEN 0 ELSE FirstAt(ptrs, p, 1)

Moved(ptrs, e) == [e EXCEPT !.ptr = NewId(ptrs, e.ptr)]

MovedIndex(ptrs, ix) == Tuple([x \in 1..Len(ix) |-> Moved(ptrs, ix[x])], Len(ix))

Collect(s, roots) ==
    LET ptrs == Tuple(SlotPtrs(s, roots), NumSlots)
    IN [heap |-> Tuple([id \in ArrIds |->
                    IF id <= NumSlots /\ ptrs[id] # 0 /\ FirstAt(ptrs, ptrs[id], 1) = id
                    THEN s.heap[ptrs[id]] ELSE <<>>], Cardinality(ArrIds)),
        forward |-> [a |-> MovedIndex(ptrs, s.forward.a),
                     b |-> MovedIndex(ptrs, s.forward.b),
                     res |-> MovedIndex(ptrs, s.forward.res)],
        inverse |-> [a |-> MovedIndex(ptrs, s.inverse.a),
                     b |-> MovedIndex(ptrs, s.inverse.b),
                     res |-> MovedIndex(ptrs, s.inverse.res)],
        roots |-> Tuple([i \in 1..NumRoots |-> Moved(ptrs, roots[i])], NumRoots)]

\* --------------------------------------- bimultimap.go: the operations
\* Each operation is the body of the method between its Lock/RLock and its
\* deferred unlock, as a function of the store.

\* LookupKey: the values of a key; the slice returned IS the index's slice.
LookupKeyOp(s, m, key) ==
    LET e == s.forward[m][key]
    IN IF ~e.found THEN make(s.heap, 0).slice ELSE SliceOf(e)

\* LookupValue: the keys of a value.
LookupValueOp(s, m, value) ==
    LET e == s.inverse[m][value]
    IN IF ~e.found THEN make(s.heap, 0).slice ELSE SliceOf(e)

\* KeyExists / ValueExists: the comma-ok of the map read.
KeyExistsOp(s, m, key) == s.forward[m][key].found

ValueExistsOp(s, m, value) == s.inverse[m][value].found

\* Keys / Values: what ranging over maps.Keys of the index yields.
KeysOp(s, m) == {k \in Keys : s.forward[m][k].found}

ValuesOp(s, m) == {v \in Values : s.inverse[m][v].found}

\* An Add without the early exit on a value the key already has.
AddOpUnchecked(s, m, key, value) ==
    LET e == s.forward[m][key]
        mk == IF e.found THEN [heap |-> s.heap, slice |-> SliceOf(e)] ELSE make(s.heap, 1)
        a1 == append(mk.heap, mk.slice, value)
        ie == s.inverse[m][value]
        mk2 == IF ie.found THEN [heap |-> a1.heap, slice |-> SliceOf(ie)]
               ELSE make(a1.heap, 1)
        a2 == append(mk2.heap, mk2.slice, key)
    IN [heap |-> a2.heap,
        forward |-> [s.forward EXCEPT ![m][key] = Entry(a1.slice)],
        inverse |-> [s.inverse EXCEPT ![m][value] = Entry(a2.slice)]]

\* An Add that appends to the forward list only.
AddOpForwardOnly(s, m, key, value) ==
    LET e == s.forward[m][key]
        mk == IF e.found THEN [heap |-> s.heap, slice |-> SliceOf(e)] ELSE make(s.heap, 1)
    IN IF Contains(mk.heap, mk.slice, value) THEN s
       ELSE [heap |-> append(mk.heap, mk.slice, value).heap,
             forward |-> [s.forward EXCEPT ![m][key] =
                            Entry(append(mk.heap, mk.slice, value).slice)],
             inverse |-> s.inverse]

\* Add.
AddOp(s, m, key, value) ==
    LET e == s.forward[m][key]
        mk == IF e.found THEN [heap |-> s.heap, slice |-> SliceOf(e)] ELSE make(s.heap, 1)
    IN IF Contains(mk.heap, mk.slice, value) THEN s
       ELSE LET a1 == append(mk.heap, mk.slice, value)
                ie == s.inverse[m][value]
                mk2 == IF ie.found THEN [heap |-> a1.heap, slice |-> SliceOf(ie)]
                       ELSE make(a1.heap, 1)
                a2 == append(mk2.heap, mk2.slice, key)
            IN [heap |-> a2.heap,
                forward |-> [s.forward EXCEPT ![m][key] = Entry(a1.slice)],
                inverse |-> [s.inverse EXCEPT ![m][value] = Entry(a2.slice)]]

\* A DeleteKey whose loop leaves the inverse index alone.
DeleteKeyStepSkipped(s, m, key, v) == s

\* One turn of DeleteKey's loop: m.inverse[v] = deleteItem(m.inverse[v], key).
DeleteKeyStep(s, m, key, v) ==
    LET d == deleteItem(s.heap, SliceOf(s.inverse[m][v]), key)
    IN [s EXCEPT !.heap = d.heap, !.inverse[m][v] = Entry(d.slice)]

\* The loop of DeleteKey: for _, v := range values.
RECURSIVE DeleteKeyLoop(_, _, _, _)
DeleteKeyLoop(s, m, key, vs) ==
    IF vs = <<>> THEN s
    ELSE DeleteKeyLoop(DeleteKeyStep(s, m, key, Head(vs)), m, key, Tail(vs))

\* A DeleteKey that forgets delete(m.forward, key).
DeleteKeyOpKept(s, m, key) ==
    LET e == s.forward[m][key]
    IN IF ~e.found THEN [store |-> s, slice |-> make(s.heap, 0).slice]
       ELSE [store |-> DeleteKeyLoop(s, m, key, View(s.heap, SliceOf(e))),
             slice |-> SliceOf(e)]

\* DeleteKey: [store, slice]; the slice returned is the deleted entry's.
DeleteKeyOp(s, m, key) ==
    LET e == s.forward[m][key]
    IN IF ~e.found THEN [store |-> s, slice |-> make(s.heap, 0).slice]
       ELSE [store |-> DeleteKeyLoop([s EXCEPT !.forward[m][key] = Absent],
                                     m, key, View(s.heap, SliceOf(e))),
             slice |-> SliceOf(e)]

\* A DeleteValue whose loop leaves the forward index alone.
DeleteValueStepSkipped(s, m, value, k) == s

\* One turn of DeleteValue's loop: m.forward[k] = deleteItem(m.forward[k], value).
DeleteValueStep(s, m, value, k) ==
    LET d == deleteItem(s.heap, SliceOf(s.forward[m][k]), value)
    IN [s EXCEPT !.heap = d.heap, !.forward[m][k] = Entry(d.slice)]

\* The loop of DeleteValue: for _, k := range keys.
RECURSIVE DeleteValueLoop(_, _, _, _)
DeleteValueLoop(s, m, value, ks) ==
    IF ks = <<>> THEN s
    ELSE DeleteValueLoop(DeleteValueStep(s, m, value, Head(ks)), m, value, Tail(ks))

\* A DeleteValue that leaves an empty entry for a value it did not find.
DeleteValueOpTouching(s, m, value) ==
    LET e == s.inverse[m][value]
    IN IF ~e.found THEN [store |-> [s EXCEPT !.inverse[m][value] = Entry(NilSlice)],
                         slice |-> make(s.heap, 0).slice]
       ELSE [store |-> DeleteValueLoop([s EXCEPT !.inverse[m][value] = Absent],
                                       m, value, View(s.heap, SliceOf(e))),
             slice |-> SliceOf(e)]

\* DeleteValue.
DeleteValueOp(s, m, value) ==
    LET e == s.inverse[m][value]
    IN IF ~e.found THEN [store |-> s, slice |-> make(s.heap, 0).slice]
       ELSE [store |-> DeleteValueLoop([s EXCEPT !.inverse[m][value] = Absent],
                                       m, value, View(s.heap, SliceOf(e))),
             slice |-> SliceOf(e)]

\* A DeleteKeyValue that drops the key's whole entry.
DeleteKeyValueOpWholeKey(s, m, key, value) == DeleteKeyOp(s, m, key).store

\* DeleteKeyValue: the guard is the presence of the key and of the value, each
\* in its own index; an emptied entry is deleted.
DeleteKeyValueOp(s, m, key, value) ==
    IF ~(s.inverse[m][value].found /\ s.forward[m][key].found) THEN s
    ELSE LET d1 == deleteItem(s.heap, SliceOf(s.forward[m][key]), value)
             fwd == [s.forward EXCEPT ![m][key] =
                        IF d1.slice.len = 0 THEN Absent ELSE Entry(d1.slice)]
             d2 == deleteItem(d1.heap, SliceOf(s.inverse[m][value]), key)
             inv == [s.inverse EXCEPT ![m][value] =
                        IF d2.slice.len = 0 THEN Absent ELSE Entry(d2.slice)]
         IN [heap |-> d2.heap, forward |-> fwd, inverse |-> inv]

\* A Clear that resets the forward index only.
ClearOpForwardOnly(s, m) == [s EXCEPT !.forward[m] = EmptyIndex(NumKeys)]

\* Clear: two new maps.
ClearOp(s, m) == New(s, m)

\* ------------------------------------------- what the structure holds
\* The (key, value) pairs of a structure, read off each index.
ForwardPairs(s, m) ==
    {kv \in Keys \X Values : kv[2] \in Elems(s.heap, SliceOf(s.forward[m][kv[1]]))}

InversePairs(s, m) ==
    {kv \in Keys \X Values : kv[1] \in Elems(s.heap, SliceOf(s.inverse[m][kv[2]]))}

\* ---------------------------------------------- calls made one at a time
\* What a call hands back, with the method that handed it back: nothing, the
\* slice of a DeleteKey or DeleteValue, or the structure of a Merge (which is
\* res).
NoRet == [kind |-> "none", slice |-> NilSlice]

Returned(op) == [kind |-> op, slice |-> NilSlice]

RetMerged == [kind |-> "Merge", slice |-> NilSlice]

RetDeleted(op, sl) == [kind |-> op, slice |-> sl]

\* The memory after a call: what the call left, with the slice sn the caller
\* keeps and the value r returned to it, after collection.
Commit(s, sn, r) ==
    \E c \in {Collect(s, <<sn, r.slice>>)} :
       /\ heap' = c.heap
       /\ forward' = c.forward
       /\ inverse' = c.inverse
       /\ snap' = c.roots[1]
       /\ ret' = [r EXCEPT !.slice = c.roots[2]]

Threads == 1..NumThreads

\* A goroutine between calls.
Idle ==
    [op |-> "none", on |-> "none", other |-> "none", key |-> Zero, value |-> Zero,
     src |-> "none", todo |-> <<>>, acc |-> {}]

\* The zero value of sync.RWMutex: no reader, no writer (0), no Lock pending.
Unlocked == [readers |-> Zero, writer |-> Zero, waiting |-> {}]

Init ==
    /\ heap = Tuple([id \in ArrIds |-> <<>>], Cardinality(ArrIds))
    /\ forward = [a |-> EmptyIndex(NumKeys), b |-> EmptyIndex(NumKeys),
                  res |-> EmptyIndex(NumKeys)]
    /\ inverse = [a |-> EmptyIndex(NumValues), b |-> EmptyIndex(NumValues),
                  res |-> EmptyIndex(NumValues)]
    /\ snap = NilSlice
    /\ ret = NoRet
    /\ failure = "none"
    /\ calls = 0
    /\ pc = Tuple([t \in Threads |-> "idle"], NumThreads)
    /\ local = Tuple([t \in Threads |-> Idle], NumThreads)
    /\ mutex = [a |-> Unlocked, b |-> Unlocked, res |-> Unlocked]

Add(m, key, value) ==
    /\ failure = "none"
    /\ Commit(AddOp(Store, m, key, value), snap, Returned("Add"))
    /\ UNCHANGED failure

DeleteKey(m, key) ==
    /\ failure = "none"
    /\ LET d == DeleteKeyOp(Store, m, key)
       IN Commit(d.store, snap, RetDeleted("DeleteKey", d.slice))
    /\ UNCHANGED failure

DeleteValue(m, value) ==
    /\ failure = "none"
    /\ LET d == DeleteValueOp(Store, m, value)
       IN Commit(d.store, snap, RetDeleted("DeleteValue", d.slice))
    /\ UNCHANGED failure

DeleteKeyValue(m, key, value) ==
    /\ failure = "none"
    /\ Commit(DeleteKeyValueOp(Store, m, key, value), snap, Returned("DeleteKeyValue"))
    /\ UNCHANGED failure

Clear(m) ==
    /\ failure = "none"
    /\ Commit(ClearOp(Store, m), snap, Returned("Clear"))
    /\ UNCHANGED failure

\* Calls made by one caller: no goroutine is involved, no lock is contended.
OneCaller == UNCHANGED <<calls, pc, local, mutex>>

\* The mutating methods of one structure, called one at a time with any
\* arguments.  (The reading methods change nothing: they are the operators
\* LookupKeyOp, LookupValueOp, KeyExistsOp, ValueExistsOp, KeysOp, ValuesOp.)
Next ==
    \/ \E key \in Keys, value \in Values : Add("a", key, value) /\ OneCaller
    \/ \E key \in Keys : DeleteKey("a", key) /\ OneCaller
    \/ \E value \in Values : DeleteValue("a", value) /\ OneCaller
    \/ \E key \in Keys, value \in Values : DeleteKeyValue("a", key, value) /\ OneCaller
    \/ Clear("a") /\ OneCaller

Spec == Init /\ [][Next]_vars

\* ------------------------------------- a caller that keeps what it looked up
\* LookupKey / LookupValue, whose result the caller keeps in snap.
LookupKey(m, key) ==
    /\ failure = "none"
    /\ Commit(Store, LookupKeyOp(Store, m, key), NoRet)
    /\ UNCHANGED failure

LookupValue(m, value) ==
    /\ failure = "none"
    /\ Commit(Store, LookupValueOp(Store, m, value), NoRet)
    /\ UNCHANGED failure

Lookup ==
    \/ \E key \in Keys : LookupKey("a", key) /\ OneCaller
    \/ \E value \in Values : LookupValue("a", value) /\ OneCaller

NextHold ==
    \/ Next
    \/ Lookup

SpecHold == Init /\ [][NextHold]_vars

\* ------------------------------------------------------------- Merge
\* The orders in which ranging over a map can yield the keys in ks.
Orders(ks) ==
    {Tuple(f, Cardinality(ks)) : f \in {g \in [1..Cardinality(ks) -> ks] : Range(g) = ks}}

\* The inner loop of Merge: for _, v := range m.LookupKey(k) { res.Add(k, v) }.
RECURSIVE AddAll(_, _, _, _)
AddAll(s, r, key, vs) ==
    IF vs = <<>> THEN s
    ELSE AddAll(AddOp(s, r, key, Head(vs)), r, key, Tail(vs))

\* The outer loop: for k := range m.Keys(), the keys coming in the order ks.
RECURSIVE MergeFrom(_, _, _, _)
MergeFrom(s, r, m, ks) ==
    IF ks = <<>> THEN s
    ELSE MergeFrom(AddAll(s, r, Head(ks), View(s.heap, LookupKeyOp(s, m, Head(ks)))),
                   r, m, Tail(ks))

\* A Merge that never ranges over other.
MergeOpFirstOnly(s, m, other, ks1, ks2) ==
    MergeFrom(New(s, "res"), "res", m, ks1)

\* Merge: res := New(); the pairs of m, then the pairs of other, are added.
MergeOp(s, m, other, ks1, ks2) ==
    MergeFrom(MergeFrom(New(s, "res"), "res", m, ks1), "res", other, ks2)

Merge(m, other) ==
    /\ failure = "none"
    /\ \E ks1 \in Orders(KeysOp(Store, m)), ks2 \in Orders(KeysOp(Store, other)) :
          Commit(MergeOp(Store, m, other, ks1, ks2), snap, RetMerged)
    /\ UNCHANGED failure

\* One more call of a driver that makes at most MaxCalls.
Count ==
    /\ calls < MaxCalls
    /\ calls' = calls + 1

Counted == Count /\ UNCHANGED <<pc, local, mutex>>

Inputs == {"a", "b"}

\* Two structures, mutated one call at a time and merged either way round.
NextMerge ==
    \/ \E m \in Inputs, key \in Keys, value \in Values : Add(m, key, value) /\ Counted
    \/ \E m \in Inputs, key \in Keys : DeleteKey(m, key) /\ Counted
    \/ \E m \in Inputs, value \in Values : DeleteValue(m, value) /\ Counted
    \/ \E m \in Inputs, key \in Keys, value \in Values : DeleteKeyValue(m, key, value) /\ Counted
    \/ \E m \in Inputs : Clear(m) /\ Counted
    \/ \E m \in Inputs : \E other \in Inputs \ {m} : Merge(m, other) /\ Counted

SpecMerge == Init /\ [][NextMerge]_vars

\* ------------------------------ unnamed/part_000: the other implementation
\* It differs from bimultimap.go in how an element leaves a list: deleteElement
\* copies the kept elements into a new slice made with capacity len(slice)-1.
\* make panics on a negative capacity: ok = FALSE is that panic.
RECURSIVE AppendAll(_, _, _)
AppendAll(h, sl, seq) ==
    IF seq = <<>> THEN [heap |-> h, slice |-> sl]
    ELSE AppendAll(append(h, sl, Head(seq)).heap, append(h, sl, Head(seq)).slice, Tail(seq))

deleteElement(h, sl, element) ==
    IF sl.len - 1 < 0 THEN [ok |-> FALSE, heap |-> h, slice |-> NilSlice]
    ELSE [ok |-> TRUE,
          heap |-> AppendAll(make(h, sl.len - 1).heap, make(h, sl.len - 1).slice,
                             Keep(View(h, sl), element)).heap,
          slice |-> AppendAll(make(h, sl.len - 1).heap, make(h, sl.len - 1).slice,
                              Keep(View(h, sl), element)).slice]

\* A call in progress: the store it has reached, and whether it still runs.
Running(s) == [store |-> s, ok |-> TRUE]

Panicked(r) == [r EXCEPT !.ok = FALSE]

\* One turn of DeleteKey's loop: m.inverse[v] = deleteElement(m.inverse[v], key).
DeleteKeyStepV1(r, m, key, v) ==
    IF ~r.ok THEN r
    ELSE IF ~deleteElement(r.store.heap, SliceOf(r.store.inverse[m][v]), key).ok
    THEN Panicked(r)
    ELSE Running([r.store EXCEPT
            !.heap = deleteElement(r.store.heap, SliceOf(r.store.inverse[m][v]), key).heap,
            !.inverse[m][v] =
                Entry(deleteElement(r.store.heap, SliceOf(r.store.inverse[m][v]), key).slice)])

RECURSIVE DeleteKeyLoopV1(_, _, _, _)
DeleteKeyLoopV1(r, m, key, vs) ==
    IF vs = <<>> THEN r
    ELSE DeleteKeyLoopV1(DeleteKeyStepV1(r, m, key, Head(vs)), m, key, Tail(vs))

\* DeleteKey: [store, ok, slice].
DeleteKeyOpV1(s, m, key) ==
    LET e == s.forward[m][key]
    IN IF ~e.found THEN [store |-> s, ok |-> TRUE, slice |-> make(s.heap, 0).slice]
       ELSE [store |-> DeleteKeyLoopV1(Running([s EXCEPT !.forward[m][key] = Absent]),
                                       m, key, View(s.heap, SliceOf(e))).store,
             ok |-> DeleteKeyLoopV1(Running([s EXCEPT !.forward[m][key] = Absent]),
                                    m, key, View(s.heap, SliceOf(e))).ok,
             slice |-> SliceOf(e)]

\* One turn of DeleteValue's loop: m.forward[k] = deleteElement(m.forward[k], value).
DeleteValueStepV1(r, m, value, k) ==
    IF ~r.ok THEN r
    ELSE IF ~deleteElement(r.store.heap, SliceOf(r.store.forward[m][k]), value).ok
    THEN Panicked(r)
    ELSE Running([r.store EXCEPT
            !.heap = deleteElement(r.store.heap, SliceOf(r.store.forward[m][k]), value).heap,
            !.forward[m][k] =
                Entry(deleteElement(r.store.heap, SliceOf(r.store.forward[m][k]), value).slice)])

RECURSIVE DeleteValueLoopV1(_, _, _, _)
DeleteValueLoopV1(r, m, value, ks) ==
    IF ks = <<>> THEN r
    ELSE DeleteValueLoopV1(DeleteValueStepV1(r, m, value, Head(ks)), m, value, Tail(ks))

\* DeleteValue: [store, ok, slice].
DeleteValueOpV1(s, m, value) ==
    LET e == s.inverse[m][value]
    IN IF ~e.found THEN [store |-> s, ok |-> TRUE, slice |-> make(s.heap, 0).slice]
       ELSE [store |-> DeleteValueLoopV1(Running([s EXCEPT !.inverse[m][value] = Absent]),
                                         m, value, View(s.heap, SliceOf(e))).store,
             ok |-> DeleteValueLoopV1(Running([s EXCEPT !.inverse[m][value] = Absent]),
                                      m, value, View(s.heap, SliceOf(e))).ok,
             slice |-> SliceOf(e)]

\* DeleteKeyValue: [store, ok].  The first deleteElement that panics ends it.
DeleteKeyValueOpV1(s, m, key, value) ==
    IF ~(s.inverse[m][value].found /\ s.forward[m][key].found) THEN Running(s)
    ELSE LET d1 == deleteElement(s.heap, SliceOf(s.forward[m][key]), value)
             fwd == [s.forward EXCEPT ![m][key] =
                        IF d1.slice.len > 0 THEN Entry(d1.slice) ELSE Absent]
             d2 == deleteElement(d1.heap, SliceOf(s.inverse[m][value]), key)
             inv == [s.inverse EXCEPT ![m][value] =
                        IF d2.slice.len > 0 THEN Entry(d2.slice) ELSE Absent]
         IN IF ~d1.ok THEN Panicked(Running(s))
            ELSE IF ~d2.ok
            THEN Panicked(Running([heap |-> d1.heap, forward |-> fwd, inverse |-> s.inverse]))
            ELSE Running([heap |-> d2.heap, forward |-> fwd, inverse |-> inv])

\* What a call does to failure: a panic nothing recovers ends the program.
Outcome(ok) == IF ok THEN "none" ELSE "panic"

AddV1(m, key, value) == Add(m, key, value)

DeleteKeyV1(m, key) ==
    /\ failure = "none"
    /\ \E d \in {DeleteKeyOpV1(Store, m, key)} :
          /\ Commit(d.store, snap, IF d.ok THEN RetDeleted("DeleteKey", d.slice) ELSE NoRet)
          /\ failure' = Outcome(d.ok)

DeleteValueV1(m, value) ==
    /\ failure = "none"
    /\ \E d \in {DeleteValueOpV1(Store, m, value)} :
          /\ Commit(d.store, snap, IF d.ok THEN RetDeleted("DeleteValue", d.slice) ELSE NoRet)
          /\ failure' = Outcome(d.ok)

DeleteKeyValueV1(m, key, value) ==
    /\ failure = "none"
    /\ \E d \in {DeleteKeyValueOpV1(Store, m, key, value)} :
          /\ Commit(d.store, snap, NoRet)
          /\ failure' = Outcome(d.ok)

ClearV1(m) == Clear(m)

NextV1 ==
    \/ \E key \in Keys, value \in Values : AddV1("a", key, value) /\ OneCaller
    \/ \E key \in Keys : DeleteKeyV1("a", key) /\ OneCaller
    \/ \E value \in Values : DeleteValueV1("a", value) /\ OneCaller
    \/ \E key \in Keys, value \in Values : DeleteKeyValueV1("a", key, value) /\ OneCaller
    \/ ClearV1("a") /\ OneCaller

SpecV1 == Init /\ [][NextV1]_vars

\* ------------------------------------------- goroutines sharing a structure
\* The goroutines call the structure Shared; a Merge is Shared.Merge(Other).
\* (local.on is the structure a call is made on, local.other the one a Merge
\* is given.)
\* Each call is cut where another goroutine can run in between: at every lock
\* operation, and, in DeleteValue, which writes under the read lock, at every
\* write to an index.  What a call returns is dropped by its caller; ret
\* keeps only that a Clear was the last call to return.
Shared == "a"

Other == "b"

\* sync.RWMutex.  Lock announces the writer, which stops new readers, and then
\* waits for the readers inside to leave; RLock waits while a writer is inside
\* or announced.
CanRLock(mx) == mx.writer = Zero /\ mx.waiting = {}

\* A Lock that waits for nobody.
CanLockAtOnce(mx) == TRUE

CanLock(mx) == mx.writer = Zero /\ mx.readers = Zero

\* The methods by the lock they take first, and what each takes as arguments.
WriteLocked == {"Add", "DeleteKey", "DeleteKeyValue", "Clear"}

ReadLocked == {"LookupKey", "LookupValue", "KeyExists", "ValueExists", "DeleteValue", "Merge"}

ArgsOf(op) ==
    IF op \in {"Add", "DeleteKeyValue"} THEN Keys \X Values
    ELSE IF op \in {"DeleteKey", "LookupKey", "KeyExists"} THEN Keys \X {Zero}
    ELSE IF op \in {"DeleteValue", "LookupValue", "ValueExists"} THEN {Zero} \X Values
    ELSE {<<Zero, Zero>>}

\* The call m.op(args), other being the structure a Merge is given.
CalledOn(m, other, op, args) ==
    [Idle EXCEPT !.op = op, !.on = m, !.other = other, !.key = args[1], !.value = args[2]]

Called(op, args) == CalledOn(Shared, Other, op, args)

StoreUnchanged == UNCHANGED <<heap, forward, inverse, snap, ret>>

At(t, where, op) == failure = "none" /\ pc[t] = where /\ local[t].op = op

\* The deferred m.mutex.Unlock() / m.mutex.RUnlock() and the return.
Unlock(t) ==
    /\ mutex' = [mutex EXCEPT ![local[t].on].writer = Zero]
    /\ pc' = [pc EXCEPT ![t] = "idle"]
    /\ local' = [local EXCEPT ![t] = Idle]
    /\ UNCHANGED <<failure, calls>>

RUnlock(t) ==
    /\ mutex' = [mutex EXCEPT ![local[t].on].readers = @ - 1]
    /\ pc' = [pc EXCEPT ![t] = "idle"]
    /\ local' = [local EXCEPT ![t] = Idle]
    /\ UNCHANGED <<failure, calls>>

\* m.mutex.Lock(), first half: the call begins and announces its Lock.
LockOn(t, m, op, args) ==
    /\ At(t, "idle", "none") /\ Count
    /\ pc' = [pc EXCEPT ![t] = "lock"]
    /\ local' = [local EXCEPT ![t] = CalledOn(m, Other, op, args)]
    /\ mutex' = [mutex EXCEPT ![m].waiting = @ \cup {t}]
    /\ StoreUnchanged /\ UNCHANGED failure

Lock(t, op, args) == LockOn(t, Shared, op, args)

\* m.mutex.Lock(), second half: the readers have left, the writer is inside.
Locked(t) ==
    /\ failure = "none" /\ pc[t] = "lock"
    /\ CanLock(mutex[local[t].on])
    /\ mutex' = [mutex EXCEPT ![local[t].on].writer = t, ![local[t].on].waiting = @ \ {t}]
    /\ pc' = [pc EXCEPT ![t] = "locked"]
    /\ StoreUnchanged /\ UNCHANGED <<failure, calls, local>>

\* m.mutex.RLock(): the call begins and enters as a reader.
RLockOn(t, m, other, op, args) ==
    /\ At(t, "idle", "none") /\ Count
    /\ CanRLock(mutex[m])
    /\ mutex' = [mutex EXCEPT ![m].readers = @ + 1]
    /\ pc' = [pc EXCEPT ![t] = "rlocked"]
    /\ local' = [local EXCEPT ![t] = CalledOn(m, other, op, args)]
    /\ StoreUnchanged /\ UNCHANGED failure

RLock(t, op, args) == RLockOn(t, Shared, Other, op, args)

\* The bodies of the methods that hold the write lock.
AddBody(t) ==
    /\ At(t, "locked", "Add")
    /\ Commit(AddOp(Store, local[t].on, local[t].key, local[t].value), snap, NoRet)
    /\ Unlock(t)

DeleteKeyBody(t) ==
    /\ At(t, "locked", "DeleteKey")
    /\ Commit(DeleteKeyOp(Store, Shared, local[t].key).store, snap, NoRet)
    /\ Unlock(t)

DeleteKeyValueBody(t) ==
    /\ At(t, "locked", "DeleteKeyValue")
    /\ Commit(DeleteKeyValueOp(Store, Shared, local[t].key, local[t].value), snap, NoRet)
    /\ Unlock(t)

ClearBody(t) ==
    /\ At(t, "locked", "Clear")
    /\ Commit(ClearOp(Store, Shared), snap, Returned("Clear"))
    /\ Unlock(t)

\* The bodies of the methods that only read.
LookupKeyBody(t) == At(t, "rlocked", "LookupKey") /\ StoreUnchanged /\ RUnlock(t)

LookupValueBody(t) == At(t, "rlocked", "LookupValue") /\ StoreUnchanged /\ RUnlock(t)

KeyExistsBody(t) == At(t, "rlocked", "KeyExists") /\ StoreUnchanged /\ RUnlock(t)

ValueExistsBody(t) == At(t, "rlocked", "ValueExists") /\ StoreUnchanged /\ RUnlock(t)

\* DeleteValue, which holds the read lock.  keys, found := m.inverse[value];
\* delete(m.inverse, value).  The loop ranges over keys: its array is out of
\* the index from here on and nothing writes to it, so local.todo holds its
\* elements.
DeleteValueBegin(t) ==
    /\ At(t, "rlocked", "DeleteValue")
    /\ IF ~inverse[Shared][local[t].value].found
       THEN StoreUnchanged /\ RUnlock(t)
       ELSE /\ Commit([Store EXCEPT !.inverse[Shared][local[t].value] = Absent],
                      snap, NoRet)
            /\ pc' = [pc EXCEPT ![t] = "deleting"]
            /\ local' = [local EXCEPT ![t].todo =
                            View(heap, SliceOf(inverse[Shared][local[t].value]))]
            /\ UNCHANGED <<failure, calls, mutex>>

\* One turn of the loop: m.forward[k] = deleteItem(m.forward[k], value).
DeleteValueTurn(t) ==
    /\ At(t, "deleting", "DeleteValue")
    /\ local[t].todo # <<>>
    /\ Commit(DeleteValueStep(Store, Shared, local[t].value, Head(local[t].todo)),
              snap, NoRet)
    /\ local' = [local EXCEPT ![t].todo = Tail(@)]
    /\ UNCHANGED <<failure, calls, pc, mutex>>

DeleteValueEnd(t) ==
    /\ At(t, "deleting", "DeleteValue")
    /\ local[t].todo = <<>>
    /\ StoreUnchanged /\ RUnlock(t)

\* Where a goroutine is inside a critical section of Shared, and where it is
\* about to write to an index.
Inside(t) == pc[t] \notin {"idle", "lock"}

Writing(t) ==
    \/ pc[t] = "locked"
    \/ pc[t] = "deleting" /\ local[t].todo # <<>>
    \/ /\ pc[t] = "rlocked" /\ local[t].op = "DeleteValue"
       /\ inverse[Shared][local[t].value].found

\* A Go map written by one goroutine while another accesses it is a data race.
\* The runtime may detect it and end the program ("fatal error: concurrent map
\* read and map write" / "concurrent map writes"), or not: both outcomes are
\* steps of the model.
DataRace(t) ==
    /\ failure = "none"
    /\ Writing(t)
    /\ \E u \in Threads \ {t} : Inside(u)
    /\ failure' = "fatal"
    /\ StoreUnchanged /\ UNCHANGED <<calls, pc, local, mutex>>

\* Merge.  m.mutex.RLock() is RLock above; then other.mutex.RLock().
MergeRLockOther(t) ==
    /\ At(t, "rlocked", "Merge")
    /\ CanRLock(mutex[local[t].other])
    /\ mutex' = [mutex EXCEPT ![local[t].other].readers = @ + 1]
    /\ pc' = [pc EXCEPT ![t] = "keys"]
    /\ local' = [local EXCEPT ![t].src = local[t].on]
    /\ StoreUnchanged /\ UNCHANGED <<failure, calls>>

\* for k := range src.Keys(): Keys takes src's read lock again and releases it;
\* the keys come in any order.
MergeKeys(t) ==
    /\ At(t, "keys", "Merge")
    /\ CanRLock(mutex[local[t].src])
    /\ \E ks \in Orders(KeysOp(Store, local[t].src)) :
          local' = [local EXCEPT ![t].todo = ks]
    /\ pc' = [pc EXCEPT ![t] = "pairs"]
    /\ StoreUnchanged /\ UNCHANGED <<failure, calls, mutex>>

\* for _, v := range src.LookupKey(k) { res.Add(k, v) }: LookupKey takes src's
\* read lock again and releases it.  res is the goroutine's own until Merge
\* returns: local.acc holds its pairs.
MergeLookupKey(t) ==
    /\ At(t, "pairs", "Merge")
    /\ local[t].todo # <<>>
    /\ CanRLock(mutex[local[t].src])
    /\ local' = [local EXCEPT
            ![t].acc = @ \cup ({Head(local[t].todo)} \X
                Elems(heap, LookupKeyOp(Store, local[t].src, Head(local[t].todo)))),
            ![t].todo = Tail(@)]
    /\ StoreUnchanged /\ UNCHANGED <<failure, calls, pc, mutex>>

\* The end of a loop: on to other, or the deferred RUnlocks and the return.
MergeLoopEnd(t) ==
    /\ At(t, "pairs", "Merge")
    /\ local[t].todo = <<>>
    /\ IF local[t].src = local[t].on
       THEN /\ local' = [local EXCEPT ![t].src = local[t].other]
            /\ pc' = [pc EXCEPT ![t] = "keys"]
            /\ UNCHANGED mutex
       ELSE /\ mutex' = [mutex EXCEPT ![local[t].other].readers = @ - 1,
                                      ![local[t].on].readers = @ - 1]
            /\ pc' = [pc EXCEPT ![t] = "idle"]
            /\ local' = [local EXCEPT ![t] = Idle]
    /\ StoreUnchanged /\ UNCHANGED <<failure, calls>>

\* A step of goroutine t.
Step(t) ==
    \/ \E op \in WriteLocked : \E args \in ArgsOf(op) : Lock(t, op, args)
    \/ Locked(t)
    \/ \E op \in ReadLocked : \E args \in ArgsOf(op) : RLock(t, op, args)
    \/ AddBody(t)
    \/ DeleteKeyBody(t)
    \/ DeleteKeyValueBody(t)
    \/ ClearBody(t)
    \/ LookupKeyBody(t)
    \/ LookupValueBody(t)
    \/ KeyExistsBody(t)
    \/ ValueExistsBody(t)
    \/ DeleteValueBegin(t)
    \/ DeleteValueTurn(t)
    \/ DeleteValueEnd(t)
    \/ DataRace(t)
    \/ MergeRLockOther(t)
    \/ MergeKeys(t)
    \/ MergeLookupKey(t)
    \/ MergeLoopEnd(t)

NextConc == \E t \in Threads : Step(t)

SpecConc == Init /\ [][NextConc]_vars

\* ------------------------------------- goroutines that only add and read
PureReads == {"LookupKey", "LookupValue", "KeyExists", "ValueExists"}

StepAdds(t) ==
    \/ \E args \in ArgsOf("Add") : Lock(t, "Add", args)
    \/ Locked(t)
    \/ \E op \in PureReads : \E args \in ArgsOf(op) : RLock(t, op, args)
    \/ AddBody(t)
    \/ LookupKeyBody(t)
    \/ LookupValueBody(t)
    \/ KeyExistsBody(t)
    \/ ValueExistsBody(t)

NextAdds == \E t \in Threads : StepAdds(t)

SpecAdds == Init /\ [][NextAdds]_vars

\* ------------------------------ goroutines merging a and b in both orders
\* Contenders call Add on a or on b, a.Merge(b) and b.Merge(a).
Contenders == 1..NumContenders

InitOrder ==
    /\ heap = Tuple([id \in ArrIds |-> <<>>], Cardinality(ArrIds))
    /\ forward = [a |-> EmptyIndex(NumKeys), b |-> EmptyIndex(NumKeys),
                  res |-> EmptyIndex(NumKeys)]
    /\ inverse = [a |-> EmptyIndex(NumValues), b |-> EmptyIndex(NumValues),
                  res |-> EmptyIndex(NumValues)]
    /\ snap = NilSlice
    /\ ret = NoRet
    /\ failure = "none"
    /\ calls = 0
    /\ pc = Tuple([t \in Contenders |-> "idle"], NumContenders)
    /\ local = Tuple([t \in Contenders |-> Idle], NumContenders)
    /\ mutex = [a |-> Unlocked, b |-> Unlocked, res |-> Unlocked]

StepOrder(t) ==
    \/ /\ calls < MaxContended
       /\ \E m \in Inputs : \E args \in ArgsOf("Add") : LockOn(t, m, "Add", args)
    \/ Locked(t)
    \/ AddBody(t)
    \/ /\ calls < MaxContended
       /\ \E m \in Inputs : \E other \in Inputs \ {m} :
             RLockOn(t, m, other, "Merge", <<Zero, Zero>>)
    \/ MergeRLockOther(t)
    \/ MergeKeys(t)
    \/ MergeLookupKey(t)
    \/ MergeLoopEnd(t)

NextOrder == \E t \in Contenders : StepOrder(t)

SpecOrder == InitOrder /\ [][NextOrder]_vars

\* ------------------------------------------- goroutines ranging over Keys()
\* bimultimap.go: Keys() and Values() return maps.Keys(m.forward) and
\* maps.Keys(m.inverse), sequences that read the map when they are ranged over.
Lazy == {"Keys", "Values"}

\* unnamed/part_000: Keys() and Values() fill a slice and return it.
Collected == {"KeysV1", "ValuesV1"}

\* What the map that t's call is about holds now.
IndexOf(t) ==
    IF local[t].op \in {"Keys", "KeysV1"}
    THEN KeysOp(Store, local[t].on)
    ELSE ValuesOp(Store, local[t].on)

\* defer m.mutex.RUnlock(); return maps.Keys(...): the lock is released and
\* the caller has a sequence that has read nothing yet.
KeysReturn(t) ==
    /\ failure = "none" /\ pc[t] = "rlocked" /\ local[t].op \in Lazy
    /\ mutex' = [mutex EXCEPT ![local[t].on].readers = @ - 1]
    /\ pc' = [pc EXCEPT ![t] = "range"]
    /\ StoreUnchanged /\ UNCHANGED <<failure, calls, local>>

\* The caller ranges over the sequence: for k := range m starts at the
\* entries the map has now, in some order.
RangeBegin(t) ==
    /\ failure = "none" /\ pc[t] = "range"
    /\ \E ks \in Orders(IndexOf(t)) : local' = [local EXCEPT ![t].todo = ks]
    /\ pc' = [pc EXCEPT ![t] = "next"]
    /\ StoreUnchanged /\ UNCHANGED <<failure, calls, mutex>>

\* The next entry: it is yielded unless it has been removed in the meantime.
RangeNext(t) ==
    /\ failure = "none" /\ pc[t] = "next"
    /\ local[t].todo # <<>>
    /\ local' = [local EXCEPT
            ![t].acc = IF Head(local[t].todo) \in IndexOf(t)
                       THEN @ \cup {Head(local[t].todo)} ELSE @,
            ![t].todo = Tail(@)]
    /\ StoreUnchanged /\ UNCHANGED <<failure, calls, pc, mutex>>

\* An entry created since the range began may be yielded as well.
RangeCreated(t) ==
    /\ failure = "none" /\ pc[t] = "next"
    /\ \E k \in IndexOf(t) \ (local[t].acc \cup Range(local[t].todo)) :
          local' = [local EXCEPT ![t].acc = @ \cup {k}]
    /\ StoreUnchanged /\ UNCHANGED <<failure, calls, pc, mutex>>

\* The range is over.
RangeEnd(t) ==
    /\ failure = "none" /\ pc[t] = "next"
    /\ local[t].todo = <<>>
    /\ pc' = [pc EXCEPT ![t] = "idle"]
    /\ local' = [local EXCEPT ![t] = Idle]
    /\ StoreUnchanged /\ UNCHANGED <<failure, calls, mutex>>

\* A goroutine about to read the map for the sequence it ranges over.
Ranging(t) == pc[t] \in {"range", "next"}

\* A map ranged over while another goroutine writes it is a data race: the
\* runtime may end the program ("fatal error: concurrent map iteration and map
\* write"), or not.
RangeRace(t) ==
    /\ failure = "none"
    /\ Ranging(t)
    /\ mutex[local[t].on].writer # Zero
    /\ failure' = "fatal"
    /\ StoreUnchanged /\ UNCHANGED <<calls, pc, local, mutex>>

\* unnamed/part_000: the loop that fills the slice runs before the RUnlock.
CollectBody(t) ==
    /\ failure = "none" /\ pc[t] = "rlocked" /\ local[t].op \in Collected
    /\ StoreUnchanged
    /\ RUnlock(t)

StepIter(t) ==
    \/ \E op \in {"Add", "DeleteKey", "Clear"} : \E args \in ArgsOf(op) : Lock(t, op, args)
    \/ Locked(t)
    \/ AddBody(t)
    \/ DeleteKeyBody(t)
    \/ ClearBody(t)
    \/ \E op \in Lazy \cup Collected : RLock(t, op, <<Zero, Zero>>)
    \/ KeysReturn(t)
    \/ RangeBegin(t)
    \/ RangeNext(t)
    \/ RangeCreated(t)
    \/ RangeEnd(t)
    \/ RangeRace(t)
    \/ CollectBody(t)

NextIter == \E t \in Threads : StepIter(t)

SpecIter == Init /\ [][NextIter]_vars

\* ------------------------------------------------------------- claims
\* C1: symmetry.  In every state reached by Add, DeleteKey, DeleteValue,
\* DeleteKeyValue and Clear called one at a time, v is in forward[k] exactly
\* when k is in inverse[v].
Symmetry == ForwardPairs(Store, "a") = InversePairs(Store, "a")

\* C1's case: pairs are held, and a delete has left an emptied entry behind.
SymmetryWitness ==
    /\ ForwardPairs(Store, "a") # {}
    /\ \E v \in Values : inverse.a[v].found /\ inverse.a[v].len = 0
    /\ ret.kind # "none" /\ ret.slice.len > 0

\* C9: KeyExists(k) is true exactly when LookupKey(k) is non-empty,
\* ValueExists(v) exactly when LookupValue(v) is non-empty, and Keys() and
\* Values() yield exactly the keys and the values that have an association.
ExistsIffAssociated ==
    /\ \A k \in Keys :
          KeyExistsOp(Store, "a", k) <=> View(heap, LookupKeyOp(Store, "a", k)) # <<>>
    /\ \A v \in Values :
          ValueExistsOp(Store, "a", v) <=> View(heap, LookupValueOp(Store, "a", v)) # <<>>
    /\ KeysOp(Store, "a") = {kv[1] : kv \in ForwardPairs(Store, "a")}
    /\ ValuesOp(Store, "a") = {kv[2] : kv \in ForwardPairs(Store, "a")}

\* C10: DeleteKey(k) returns exactly the values k had before the call (nothing
\* if k was absent); after it LookupKey(k) is empty, k is in LookupValue(v) for
\* no v, and LookupKey(k') is what it was for every other key k'.
DeleteKeyPost ==
    [][\A k \in Keys : DeleteKey("a", k) =>
          /\ View(heap', ret'.slice) = View(heap, LookupKeyOp(Store, "a", k))
          /\ View(heap', LookupKeyOp(Store', "a", k)) = <<>>
          /\ \A v \in Values : k \notin Elems(heap', LookupValueOp(Store', "a", v))
          /\ \A k2 \in Keys \ {k} :
                View(heap', LookupKeyOp(Store', "a", k2))
                    = View(heap, LookupKeyOp(Store, "a", k2))]_vars

\* C10's case: a DeleteKey has returned two values while the other key
\* still has its own.
DeleteKeyPostWitness ==
    /\ ret.kind = "DeleteKey" /\ ret.slice.len = 2
    /\ \E k \in Keys : forward.a[k].found /\ forward.a[k].len = 2

\* C5: what LookupKey or LookupValue returned is a snapshot.  Until the caller
\* looks up again, no Add, DeleteKey, DeleteValue, DeleteKeyValue or Clear
\* changes the length or the elements the caller sees in it.
LookupIsSnapshot ==
    [][Lookup \/ View(heap', snap') = View(heap, snap)]_vars

\* C6: every operation is total.  In every state reached by Add, DeleteKey,
\* DeleteValue, DeleteKeyValue and Clear, no call has ended in a runtime
\* failure, DeleteKeyValue on an entry holding an empty list included.
EveryCallCompletes == failure = "none"

\* What an index holds, whatever arrays hold it: per key, whether the entry is
\* there and the list in it.
Contents(h, ix) == [x \in DOMAIN ix |-> <<ix[x].found, View(h, SliceOf(ix[x]))>>]

\* C7: m.Merge(other) returns a structure whose pairs are exactly the pairs of
\* m together with the pairs of other, and leaves the forward and the inverse
\* index of m and of other as they were.
MergeIsUnion ==
    [][\A m \in Inputs : \A other \in Inputs \ {m} : Merge(m, other) =>
          /\ ForwardPairs(Store', "res") = ForwardPairs(Store, m) \cup ForwardPairs(Store, other)
          /\ InversePairs(Store', "res") = ForwardPairs(Store', "res")
          /\ \A x \in Inputs :
                /\ Contents(heap', forward'[x]) = Contents(heap, forward[x])
                /\ Contents(heap', inverse'[x]) = Contents(heap, inverse[x])]_vars

\* C7's case: a Merge has returned three pairs, of two inputs that differ and
\* overlap.
MergeIsUnionWitness ==
    /\ ret.kind = "Merge"
    /\ Cardinality(ForwardPairs(Store, "res")) = 3
    /\ ForwardPairs(Store, "res") = ForwardPairs(Store, "a") \cup ForwardPairs(Store, "b")
    /\ Cardinality(ForwardPairs(Store, "a")) = 2
    /\ Cardinality(ForwardPairs(Store, "b")) = 2

\* C8: the keys m.Merge(other).Keys() yields are those of m.Keys() together
\* with those of other.Keys(), and likewise for Values().
MergeKeysAreUnion ==
    [][\A m \in Inputs : \A other \in Inputs \ {m} : Merge(m, other) =>
          /\ KeysOp(Store', "res") = KeysOp(Store, m) \cup KeysOp(Store, other)
          /\ ValuesOp(Store', "res") = ValuesOp(Store, m) \cup ValuesOp(Store, other)]_vars

\* C2: under any interleaving, while a reader (LookupKey, LookupValue,
\* KeyExists, ValueExists) holds the shared lock, the symmetry invariant holds:
\* it never sees one index updated for a pair and the other not yet.
ReadersSeeSymmetry ==
    \A t \in Threads :
        (/\ pc[t] = "rlocked"
         /\ local[t].op \in {"LookupKey", "LookupValue", "KeyExists", "ValueExists"})
        => ForwardPairs(Store, Shared) = InversePairs(Store, Shared)

\* C3: every write to an index is made under the exclusive lock: no goroutine
\* is writing an index while another is inside a critical section, read or
\* write, of the same structure.
WritesAreExclusive ==
    \A t \in Threads : Writing(t) => \A u \in Threads \ {t} : ~Inside(u)

\* C4: no operation blocks indefinitely: in no reachable state is every
\* goroutine inside a call and unable to take a step.
NeverAllBlocked ==
    failure = "none" => \E t \in Threads : pc[t] = "idle" \/ ENABLED Step(t)

\* C11: DeleteValue(v) returns exactly the keys v had before the call (nothing
\* if v was absent); after it LookupValue(v) is empty, v is in LookupKey(k) for
\* no k, and LookupValue(v') is what it was for every other value v'.
DeleteValuePost ==
    [][\A v \in Values : DeleteValue("a", v) =>
          /\ View(heap', ret'.slice) = View(heap, LookupValueOp(Store, "a", v))
          /\ View(heap', LookupValueOp(Store', "a", v)) = <<>>
          /\ \A k \in Keys : v \notin Elems(heap', LookupKeyOp(Store', "a", k))
          /\ \A v2 \in Values \ {v} :
                View(heap', LookupValueOp(Store', "a", v2))
                    = View(heap, LookupValueOp(Store, "a", v2))]_vars

\* C11's case: a DeleteValue has returned two keys while the other value
\* still has its own.
DeleteValuePostWitness ==
    /\ ret.kind = "DeleteValue" /\ ret.slice.len = 2
    /\ \E v \in Values : inverse.a[v].found /\ inverse.a[v].len = 2

\* C12: DeleteKeyValue(k, v) removes only the pair (k, v): the pairs held
\* afterwards, read off either index, are those held before less (k, v).
DeleteKeyValueRemovesOnlyThePair ==
    [][\A k \in Keys, v \in Values : DeleteKeyValue("a", k, v) =>
          /\ ForwardPairs(Store', "a") = ForwardPairs(Store, "a") \ {<<k, v>>}
          /\ InversePairs(Store', "a") = InversePairs(Store, "a") \ {<<k, v>>}]_vars

\* C12's case: a DeleteKeyValue has left another pair of its key and another
\* pair of its value behind.
DeleteKeyValueWitness ==
    /\ ret.kind = "DeleteKeyValue"
    /\ \E k \in Keys, v \in Values :
          /\ <<k, v>> \notin ForwardPairs(Store, "a")
          /\ \E v2 \in Values \ {v} : <<k, v2>> \in ForwardPairs(Store, "a")
          /\ \E k2 \in Keys \ {k} : <<k2, v>> \in ForwardPairs(Store, "a")
          /\ forward.a[k].len < Cap(heap, SliceOf(forward.a[k]))

\* C13: on a key with no forward entry LookupKey and DeleteKey return an empty
\* sequence, on a value with no inverse entry LookupValue and DeleteValue do,
\* and these calls, and DeleteKeyValue(k, v) with k or v absent, leave both
\* indices as they are.
AbsentIsNoOp ==
    /\ \A k \in Keys : ~KeyExistsOp(Store, "a", k) =>
          /\ View(heap, LookupKeyOp(Store, "a", k)) = <<>>
          /\ View(DeleteKeyOp(Store, "a", k).store.heap, DeleteKeyOp(Store, "a", k).slice) = <<>>
          /\ DeleteKeyOp(Store, "a", k).store = Store
    /\ \A v \in Values : ~ValueExistsOp(Store, "a", v) =>
          /\ View(heap, LookupValueOp(Store, "a", v)) = <<>>
          /\ View(DeleteValueOp(Store, "a", v).store.heap, DeleteValueOp(Store, "a", v).slice) = <<>>
          /\ DeleteValueOp(Store, "a", v).store = Store
    /\ \A k \in Keys, v \in Values :
          (~KeyExistsOp(Store, "a", k) \/ ~ValueExistsOp(Store, "a", v)) =>
              DeleteKeyValueOp(Store, "a", k, v) = Store

\* C13's case: a DeleteValue has returned nothing, while the structure holds
\* pairs and has a key and a value without an entry.
AbsentIsNoOpWitness ==
    /\ ret.kind = "DeleteValue" /\ ret.slice.len = 0
    /\ ForwardPairs(Store, "a") # {}
    /\ \E v \in Values : ~ValueExistsOp(Store, "a", v)
    /\ \E k \in Keys : ~KeyExistsOp(Store, "a", k)

\* C14: after Add(k, v) LookupKey(k) contains v, LookupValue(v) contains k, and
\* KeyExists(k) and ValueExists(v) are true, whatever the entries of k and of v
\* were before, an entry holding an empty list included.
AddPost ==
    [][\A k \in Keys, v \in Values : Add("a", k, v) =>
          /\ v \in Elems(heap', LookupKeyOp(Store', "a", k))
          /\ k \in Elems(heap', LookupValueOp(Store', "a", v))
          /\ KeyExistsOp(Store', "a", k)
          /\ ValueExistsOp(Store', "a", v)]_vars

\* C14's case: an Add has returned, and a key holds one value in a list that
\* has room for two: the list had been emptied, or cut, in place.
AddPostWitness ==
    /\ ret.kind = "Add"
    /\ \E k \in Keys :
          /\ forward.a[k].found /\ forward.a[k].len = 1
          /\ Cap(heap, SliceOf(forward.a[k])) = 2
    /\ \E v \in Values :
          /\ inverse.a[v].found /\ inverse.a[v].len = 1
          /\ Cap(heap, SliceOf(inverse.a[v])) = 2

\* C15: Add is idempotent: a second Add(k, v) right after the first leaves the
\* forward and the inverse index, and the lists in them, as the first left them.
AddIsIdempotent ==
    [][\A k \in Keys, v \in Values : Add("a", k, v) =>
          AddOp(Store', "a", k, v) = Store']_vars

\* C15's case: an Add has returned in a structure of three pairs in which a
\* list has room left for an append.
AddIsIdempotentWitness ==
    /\ ret.kind = "Add"
    /\ Cardinality(ForwardPairs(Store, "a")) = 3
    /\ \E v \in Values :
          inverse.a[v].found /\ inverse.a[v].len < Cap(heap, SliceOf(inverse.a[v]))

\* A list without a repeated element.
NoRepeat(seq) == Cardinality(Range(seq)) = Len(seq)

\* C16: no duplicates.  In every state reached by Add, DeleteKey, DeleteValue,
\* DeleteKeyValue, Clear and Merge, no value occurs twice in forward[k] and no
\* key occurs twice in inverse[v], in the inputs and in what Merge returns.
NoDuplicates ==
    \A i \in 1..Len(MapSeq) :
        /\ \A k \in Keys : NoRepeat(View(heap, SliceOf(forward[MapSeq[i]][k])))
        /\ \A v \in Values : NoRepeat(View(heap, SliceOf(inverse[MapSeq[i]][v])))

\* C16's case: a Merge of two structures that share a pair has returned, and
\* the shared pair's key and value each hold a list of two.
NoDuplicatesWitness ==
    /\ ret.kind = "Merge"
    /\ \E k \in Keys, v \in Values :
          /\ <<k, v>> \in ForwardPairs(Store, "a") \cap ForwardPairs(Store, "b")
          /\ forward.res[k].len = 2
          /\ inverse.res[v].len = 2

\* The pair goroutine t is adding.
PairOf(t) == <<local[t].key, local[t].value>>

\* C17: concurrent Adds, with readers running, lose nothing.  While an Add is
\* inside its critical section no other goroutine is inside one, so its body
\* runs as one step; that step adds exactly its pair to what both indices hold;
\* no other step changes what they hold; and symmetry and no-duplicates hold
\* whenever every call has returned.  Hence, once all have returned, the
\* structure holds the pairs it held before and the pairs added, no more.
ConcurrentAddsKeepAll ==
    [][/\ \A t \in Threads :
             (pc'[t] = "locked") => \A u \in Threads \ {t} : pc'[u] \in {"idle", "lock"}
       /\ \A t \in Threads : AddBody(t) =>
             /\ ForwardPairs(Store', Shared) = ForwardPairs(Store, Shared) \cup {PairOf(t)}
             /\ InversePairs(Store', Shared) = InversePairs(Store, Shared) \cup {PairOf(t)}
       /\ (\A t \in Threads : ~AddBody(t)) =>
             /\ ForwardPairs(Store', Shared) = ForwardPairs(Store, Shared)
             /\ InversePairs(Store', Shared) = InversePairs(Store, Shared)
       /\ (\A t \in Threads : pc'[t] = "idle") =>
             /\ ForwardPairs(Store', Shared) = InversePairs(Store', Shared)
             /\ \A k \in Keys : NoRepeat(View(heap', SliceOf(forward'[Shared][k])))
             /\ \A v \in Values : NoRepeat(View(heap', SliceOf(inverse'[Shared][v])))]_vars

\* C17's case: with pairs already added, one Add is inside its critical
\* section while another, of a different pair, waits for the lock.
ConcurrentAddsWitness ==
    /\ ForwardPairs(Store, Shared) # {}
    /\ \E t \in Threads : \E u \in Threads \ {t} :
          /\ pc[t] = "locked" /\ local[t].op = "Add"
          /\ pc[u] = "lock" /\ local[u].op = "Add"
          /\ PairOf(t) # PairOf(u)
          /\ PairOf(t) \notin ForwardPairs(Store, Shared)
          /\ PairOf(u) \notin ForwardPairs(Store, Shared)

\* C18: after Clear() Keys() and Values() yield nothing, KeyExists and
\* ValueExists are false for every key and value, and every lookup is empty;
\* and while Clear is inside its critical section no other goroutine is inside
\* one, so none sees one index reset and the other not.
ClearPost ==
    [][\A t \in Threads :
          /\ (pc'[t] = "locked" /\ local'[t].op = "Clear") =>
                \A u \in Threads \ {t} : pc'[u] \in {"idle", "lock"}
          /\ ClearBody(t) =>
                /\ KeysOp(Store', Shared) = {}
                /\ ValuesOp(Store', Shared) = {}
                /\ \A k \in Keys :
                      /\ ~KeyExistsOp(Store', Shared, k)
                      /\ View(heap', LookupKeyOp(Store', Shared, k)) = <<>>
                /\ \A v \in Values :
                      /\ ~ValueExistsOp(Store', Shared, v)
                      /\ View(heap', LookupValueOp(Store', Shared, v)) = <<>>]_vars

\* C18's case: a Clear has returned and left nothing, after three calls
\* before it, while another goroutine's call was kept waiting for the lock.
ClearPostWitness ==
    /\ ret.kind = "Clear"
    /\ calls >= 4
    /\ KeysOp(Store, Shared) = {} /\ ValuesOp(Store, Shared) = {}
    /\ \E u \in Threads : pc[u] = "lock"

\* C19: Merge takes its two read locks in an order that cannot deadlock.  With
\* a.Merge(b), b.Merge(a) and writers on a and on b running together, there is
\* no state in which two merges each hold the read lock of the structure the
\* other is waiting for while no goroutine inside a call can take a step.
MergesNeverDeadlock ==
    \A t \in Contenders : \A u \in Contenders \ {t} :
        (/\ At(t, "rlocked", "Merge") /\ At(u, "rlocked", "Merge")
         /\ local[t].on = local[u].other /\ local[u].on = local[t].other)
        => \E w \in Contenders : pc[w] # "idle" /\ ENABLED StepOrder(w)

\* C20: Keys() and Values() read the index under the shared lock: no goroutine
\* is about to read the forward (inverse) index for the sequence Keys()
\* (Values()) returned while a writer is inside its critical section on the
\* same structure.
KeysReadUnderLock ==
    \A t \in Threads : Ranging(t) => mutex[local[t].on].writer = Zero

=============================================================================
